---- MODULE Spec2Model ----
(***************************************************************************)
(* aergia-js, src/lib/index.ts: lazy computations on iterators.            *)
(*                                                                         *)
(* An iterator is an object with one method, next().  The objects live in  *)
(* `heap`, a sequence indexed by handle; a transformer (map, filter,       *)
(* concatenate) holds the handles of its sources.  Every function of the   *)
(* library is an operator over a run r = [heap, log]: the heap it mutates  *)
(* and the log of the next() calls made so far, as <<handle, done>> pairs  *)
(* in order of return.  `sawDone` keeps the handles that have returned    *)
(* done and `toldDone` the pairs <<id, x>> where x returned done during a  *)
(* call on id.  What a call returns carries `depth`, the call nesting it   *)
(* reached with its own frame counted: Node keeps a frame for every call,  *)
(* a call in tail position included.                                       *)
(*                                                                         *)
(* JavaScript numbers that can be Infinity, -Infinity or NaN (a length, a  *)
(* cap n) are kept as extended rationals [num, den] with den >= 0:         *)
(* den = 0 is Infinity (num > 0), -Infinity (num < 0) or NaN (num = 0).    *)
(* Floating-point rounding is not modelled: arithmetic is exact.           *)
(***************************************************************************)
EXTENDS Integers, Sequences, FiniteSets, TLC

VARIABLES heap, made, sawDone, toldDone, res

vars == <<heap, made, sawDone, toldDone, res>>

\* ------------------------------------------------------------------ bounds
MaxLen == 2       \* longest array handed to iterator() / longest finite length
MaxVal == 2       \* array items are 0..MaxVal
MaxCap == 3       \* caps n are -1..MaxCap, or Infinity
MaxIndex == 3     \* an infinite sequence is pulled at most this many times
MaxStep == 2      \* arrange's start, stop and step are -MaxStep..MaxStep
MaxIters == 2     \* iterators a caller builds into one pipeline
MaxSources == 2   \* iterators handed to one concatenate

Values == 0..MaxVal
Arrays == UNION {[1..k -> Values] : k \in 0..MaxLen}

\* ----------------------------------------------------------------- numbers
Num(a) == [num |-> a, den |-> 1]
Infinity == [num |-> 1, den |-> 0]
Sign(a) == IF a > 0 THEN 1 ELSE IF a < 0 THEN 0 - 1 ELSE 0

\* a / b for integers a, b, as JavaScript divides: x/0 is +-Infinity, 0/0 NaN
Divide(a, b) ==
  IF b > 0 THEN [num |-> a, den |-> b]
  ELSE IF b < 0 THEN [num |-> 0 - a, den |-> 0 - b]
  ELSE [num |-> Sign(a), den |-> 0]

\* i < x for an integer i (every comparison with NaN is false)
IntLess(i, x) == IF x.den > 0 THEN i * x.den < x.num ELSE x.num > 0

\* mutant: the cap test as n < 0
LessThanZero(x) == IF x.den > 0 THEN x.num < 0 ELSE x.num < 0

\* x < 1
LessThanOne(x) == IF x.den > 0 THEN x.num < x.den ELSE x.num < 0

\* mutant: the cap is handed on as it is
MinusNothing(x) == x

\* x - 1 (Infinity - 1 = Infinity, NaN - 1 = NaN)
MinusOne(x) == [num |-> x.num - x.den, den |-> x.den]

Caps == {Num(k) : k \in (0 - 1)..MaxCap} \cup {Infinity}

\* --------------------------------------------------------------- callbacks
\* The functions a caller hands to the library, by name.  A test may be
\* wrapped in a negation (some), a comparator may have its arguments
\* swapped (max).
TestNames == {"even", "positive"}
Tests == [name : TestNames, negated : {FALSE}]

applyTest(test, value) ==
  LET b == IF test.name = "even" THEN value % 2 = 0 ELSE value > 0
  IN  IF test.negated THEN ~b ELSE b

\* (value) => !test(value)
negate(test) == [test EXCEPT !.negated = ~test.negated]

LessThanNames == {"lt", "ltHalf"}
Comparators == [name : LessThanNames, swapped : {FALSE}]

applyLessThan(lessThan, value, otherValue) ==
  LET a == IF lessThan.swapped THEN otherValue ELSE value
      b == IF lessThan.swapped THEN value ELSE otherValue
  IN  IF lessThan.name = "lt" THEN a < b ELSE (a \div 2) < (b \div 2)

\* (value, otherValue) => lessThan(otherValue, value)
swap(lessThan) == [lessThan EXCEPT !.swapped = ~lessThan.swapped]

\* mappers handed to map()
MapperNames == {"increment", "double"}

applyMapper(mapper, value) == IF mapper = "increment" THEN value + 1 ELSE value * 2

\* the recurrence handed to recursive(): (p) => p + 1 or (p0, p1) => p0 + p1
applyRelation(relation, previous) ==
  IF relation = "successor" THEN previous[1] + 1 ELSE previous[1] + previous[2]

\* mutant: recursive()'s closure hands out the item it has just computed
callNthNewest(nth, n) ==
  CASE nth.fn = "identity" -> [value |-> n, nth |-> [nth EXCEPT !.asked = Append(@, n)]]
    [] nth.fn = "odd"      -> [value |-> (n * 2) - 1,
                               nth |-> [nth EXCEPT !.asked = Append(@, n)]]
    [] nth.fn = "arrange"  -> [value |-> nth.start + n * nth.step, nth |-> nth]
    [] nth.fn = "index"    -> [value |-> nth.array[n + 1], nth |-> nth]
    [] nth.fn = "recursive" ->
         LET pushed == Append(nth.initial, applyRelation(nth.nth, nth.initial))
         IN  [value |-> pushed[Len(pushed)], nth |-> [nth EXCEPT !.initial = Tail(pushed)]]

\* The nth callback of sequence(), called with index n: its value and the
\* callback afterwards (recursive()'s closure mutates its window `initial`).
\* User functions of the index, arrange's start + n * step, iterator()'s
\* array[n], and recursive()'s push-then-shift.  A user function keeps the
\* indices it was asked for in `asked`.
callNth(nth, n) ==
  CASE nth.fn = "identity" -> [value |-> n, nth |-> [nth EXCEPT !.asked = Append(@, n)]]
    [] nth.fn = "odd"      -> [value |-> (n * 2) - 1,
                               nth |-> [nth EXCEPT !.asked = Append(@, n)]]
    [] nth.fn = "arrange"  -> [value |-> nth.start + n * nth.step, nth |-> nth]
    [] nth.fn = "index"    -> [value |-> nth.array[n + 1], nth |-> nth]
    [] nth.fn = "recursive" ->
         LET pushed == Append(nth.initial, applyRelation(nth.nth, nth.initial))
         IN  [value |-> Head(pushed), nth |-> [nth EXCEPT !.initial = Tail(pushed)]]

\* --------------------------------------------------------------- iterators
Done == [done |-> TRUE]
Item(value) == [done |-> FALSE, value |-> value]

\* array[Symbol.iterator](): the built-in array iterator
arrayIterator(array) == [kind |-> "array", array |-> array, index |-> 0]

\* sequence(nth, length): let i = 0
sequence(nth, length) == [kind |-> "sequence", nth |-> nth, length |-> length, i |-> 0]

\* mutant: the stop bound counted in
arrangeInclusive(start, stop, step) ==
  sequence([fn |-> "arrange", start |-> start, step |-> step],
           Divide(stop - start + step, step))

\* arrange(start, stop, step)
arrange(start, stop, step) ==
  sequence([fn |-> "arrange", start |-> start, step |-> step], Divide(stop - start, step))

\* recursive(nth, length, ...initial)
recursive(nth, length, initial) ==
  sequence([fn |-> "recursive", nth |-> nth, initial |-> initial], length)

empty == [kind |-> "empty"]

\* map(iterator, mapper); `mapped` keeps the values mapper was called with
map(iterator, mapper) ==
  [kind |-> "map", iterator |-> iterator, mapper |-> mapper, mapped |-> <<>>]

filter(iterator, test) == [kind |-> "filter", iterator |-> iterator, test |-> test]

\* concatenate(...iterators): iteratorsIterator is the array iterator over
\* `iterators` (its position is `index`), shifted once at construction
concatenate(iterators) ==
  [kind |-> "concatenate", iterators |-> iterators,
   index |-> IF Len(iterators) > 0 THEN 1 ELSE 0,
   nextIterator |-> IF Len(iterators) > 0 THEN iterators[1] ELSE 0,
   iteratorsDone |-> (Len(iterators) = 0)]

\* the run after a call returned
Run(s) == [heap |-> s.heap, log |-> s.log]

\* the result of a next() call: the heap after it, the log, and the step result
Return(h, log, id, result) ==
  [heap |-> h, log |-> Append(log, <<id, result.done>>), result |-> result, depth |-> 1]

Larger(a, b) == IF a < b THEN b ELSE a

\* what a call returns, the calls it made having nested `inner` deep
Calling(s, inner) == [s EXCEPT !.depth = 1 + inner]

\* what a call returns that hands on what its last call returned
Framed(t) == [t EXCEPT !.depth = 1 + @]

\* the same, an earlier call having nested `inner` deep
Deeper(t, inner) == [t EXCEPT !.depth = 1 + (IF @ < inner THEN inner ELSE @)]

arrayNext(r, id) ==
  LET it == r.heap[id] IN
  IF it.index < Len(it.array)
  THEN Return([r.heap EXCEPT ![id].index = it.index + 1], r.log, id,
              Item(it.array[it.index + 1]))
  ELSE Return(r.heap, r.log, id, Done)

\* mutant: nth is called twice for every item
sequenceNextAsksTwice(r, id) ==
  LET it == r.heap[id]
      called == callNth(callNth(it.nth, it.i).nth, it.i)
  IN  IF ~IntLess(it.i, it.length)
      THEN Return(r.heap, r.log, id, Done)
      ELSE Return([r.heap EXCEPT ![id].i = it.i + 1, ![id].nth = called.nth],
                  r.log, id, Item(called.value))

\* mutant: the cursor starts over once the end is reported
sequenceNextRewinds(r, id) ==
  LET it == r.heap[id]
      called == callNth(it.nth, it.i)
  IN  IF ~IntLess(it.i, it.length)
      THEN Return([r.heap EXCEPT ![id].i = 0], r.log, id, Done)
      ELSE Return([r.heap EXCEPT ![id].i = it.i + 1, ![id].nth = called.nth],
                  r.log, id, Item(called.value))

sequenceNext(r, id) ==
  LET it == r.heap[id]
      called == callNth(it.nth, it.i)
  IN  IF ~IntLess(it.i, it.length)
      THEN Return(r.heap, r.log, id, Done)
      ELSE Return([r.heap EXCEPT ![id].i = it.i + 1, ![id].nth = called.nth],
                  r.log, id, Item(called.value))

emptyNext(r, id) == Return(r.heap, r.log, id, Done)

RECURSIVE next(_, _)
RECURSIVE shiftStopsAtDone(_, _, _)
RECURSIVE shift(_, _, _)
RECURSIVE filterNext(_, _)
RECURSIVE concatenateNext(_, _)

\* mutant: no pull is made after one that returned done
shiftStopsAtDone(r, id, n) ==
  LET s == next(r, id)
  IN  IF n < 1 \/ s.result.done
      THEN Framed(s)
      ELSE Deeper(shiftStopsAtDone(Run(s), id, n - 1), s.depth)

\* shift(iterator, n = 0)
shift(r, id, n) ==
  LET s == next(r, id)
  IN  IF n < 1
      THEN Framed(s)
      ELSE Deeper(shift(Run(s), id, n - 1), s.depth)

\* mutant: every pull takes two items from the source
mapNextSkips(r, id) ==
  LET it == r.heap[id]
      s == shift(r, it.iterator, 1)
  IN  IF s.result.done
      THEN Calling(Return(s.heap, s.log, id, Done), s.depth)
      ELSE Calling(Return([s.heap EXCEPT ![id].mapped = Append(@, s.result.value)],
                          s.log, id, Item(applyMapper(it.mapper, s.result.value))),
                   s.depth)

mapNext(r, id) ==
  LET it == r.heap[id]
      s == shift(r, it.iterator, 0)
  IN  IF s.result.done
      THEN Calling(Return(s.heap, s.log, id, Done), s.depth)
      ELSE Calling(Return([s.heap EXCEPT ![id].mapped = Append(@, s.result.value)],
                          s.log, id, Item(applyMapper(it.mapper, s.result.value))),
                   s.depth)

\* mutant: an item that fails the test ends the iterator
filterNextGivesUp(r, id) ==
  LET it == r.heap[id]
      s == shift(r, it.iterator, 0)
  IN  IF s.result.done \/ applyTest(it.test, s.result.value)
      THEN Calling(Return(s.heap, s.log, id, s.result), s.depth)
      ELSE Calling(Return(s.heap, s.log, id, Done), s.depth)

\* return this.next(): `again` is what the inner call returned
filterNext(r, id) ==
  LET it == r.heap[id]
      s == shift(r, it.iterator, 0)
  IN  IF s.result.done \/ applyTest(it.test, s.result.value)
      THEN Calling(Return(s.heap, s.log, id, s.result), s.depth)
      ELSE CHOOSE out \in
             {Calling(Return(again.heap, again.log, id, again.result),
                      Larger(s.depth, again.depth)) :
                again \in {filterNext(Run(s), id)}} : TRUE

\* mutant: the end of one source ends them all
advanceStops(it) == [it EXCEPT !.nextIterator = 0, !.iteratorsDone = TRUE]

\* ({ value: nextIterator, done: iteratorsDone } = shift(iteratorsIterator))
advance(it) ==
  IF it.index < Len(it.iterators)
  THEN [it EXCEPT !.index = it.index + 1,
                  !.nextIterator = it.iterators[it.index + 1],
                  !.iteratorsDone = FALSE]
  ELSE [it EXCEPT !.nextIterator = 0, !.iteratorsDone = TRUE]

\* mutant: a source that returned done is pulled once more before the next
RECURSIVE concatenateNextRetries(_, _)
concatenateNextRetries(r, id) ==
  LET it == r.heap[id] IN
  IF it.iteratorsDone
  THEN Return(r.heap, r.log, id, Done)
  ELSE LET s == next(r, it.nextIterator) IN
       IF s.result.done
       THEN CHOOSE out \in
              {Calling(Return(again.heap, again.log, id, again.result),
                       Larger(s.depth, again.depth)) :
                 again \in {concatenateNextRetries(
                               [heap |-> [next(Run(s), it.nextIterator).heap
                                            EXCEPT ![id] = advance(s.heap[id])],
                                log |-> next(Run(s), it.nextIterator).log], id)}} : TRUE
       ELSE Calling(Return(s.heap, s.log, id, Item(s.result.value)), s.depth)

concatenateNext(r, id) ==
  LET it == r.heap[id] IN
  IF it.iteratorsDone
  THEN Return(r.heap, r.log, id, Done)
  ELSE LET s == next(r, it.nextIterator) IN
       IF s.result.done
       THEN CHOOSE out \in
              {Calling(Return(again.heap, again.log, id, again.result),
                       Larger(s.depth, again.depth)) :
                 again \in {concatenateNext(
                               [heap |-> [s.heap EXCEPT ![id] = advance(s.heap[id])],
                                log |-> s.log], id)}} : TRUE
       ELSE Calling(Return(s.heap, s.log, id, Item(s.result.value)), s.depth)

\* iterator.next(), dispatched on the object behind the handle
next(r, id) ==
  CASE r.heap[id].kind = "array"       -> arrayNext(r, id)
    [] r.heap[id].kind = "sequence"    -> sequenceNext(r, id)
    [] r.heap[id].kind = "empty"       -> emptyNext(r, id)
    [] r.heap[id].kind = "map"         -> mapNext(r, id)
    [] r.heap[id].kind = "filter"      -> filterNext(r, id)
    [] r.heap[id].kind = "concatenate" -> concatenateNext(r, id)

\* ------------------------------------------------------------------- folds
NoStop == [fn |-> "none"]
StopWhen(test) == [fn |-> "test", test |-> test]

\* stop?.(value) === true
applyStop(stop, value) == stop.fn = "test" /\ applyTest(stop.test, value)

\* mutant: min's reducer keeps the running candidate only when it is
\* strictly less
applyReducerTieReplaces(reducer, value, result) ==
  CASE reducer.fn = "every"    -> applyTest(reducer.test, value) /\ result
    [] reducer.fn = "push"     -> Append(result, value)
    [] reducer.fn = "count"    -> result + (IF applyTest(reducer.test, value) THEN 1 ELSE 0)
    [] reducer.fn = "min"      -> IF applyLessThan(reducer.lessThan, result, value)
                                  THEN result ELSE value
    [] reducer.fn = "prepend"  -> <<value>> \o result
    [] reducer.fn = "subtract" -> value - result

\* reducer(value, result): the reducers the library builds (every, take,
\* count, min) and two a caller hands to reduce()
applyReducer(reducer, value, result) ==
  CASE reducer.fn = "every"    -> applyTest(reducer.test, value) /\ result
    [] reducer.fn = "push"     -> Append(result, value)
    [] reducer.fn = "count"    -> result + (IF applyTest(reducer.test, value) THEN 1 ELSE 0)
    [] reducer.fn = "min"      -> IF applyLessThan(reducer.lessThan, value, result)
                                  THEN value ELSE result
    [] reducer.fn = "prepend"  -> <<value>> \o result
    [] reducer.fn = "subtract" -> value - result

\* mutant: the next item is pulled before the cap is looked at
RECURSIVE reduceLooksAhead(_, _, _, _, _, _)
reduceLooksAhead(r, id, reducer, initialValue, n, stop) ==
  LET s == shift(r, id, 0) IN
  IF LessThanOne(n) \/ s.result.done
  THEN [heap |-> s.heap, log |-> s.log, threw |-> FALSE, value |-> initialValue,
        depth |-> 1 + s.depth]
  ELSE IF applyStop(stop, s.result.value)
  THEN [heap |-> s.heap, log |-> s.log, threw |-> FALSE,
        value |-> applyReducer(reducer, s.result.value, initialValue),
        depth |-> 1 + s.depth]
  ELSE Deeper(reduceLooksAhead(Run(s), id, reducer,
                               applyReducer(reducer, s.result.value, initialValue),
                               MinusOne(n), stop),
              s.depth)

\* mutant: the item stop accepts is left out of the result
RECURSIVE reduceStopExcluded(_, _, _, _, _, _)
reduceStopExcluded(r, id, reducer, initialValue, n, stop) ==
  IF LessThanOne(n)
  THEN [heap |-> r.heap, log |-> r.log, threw |-> FALSE, value |-> initialValue,
        depth |-> 1]
  ELSE LET s == shift(r, id, 0) IN
       IF s.result.done
       THEN [heap |-> s.heap, log |-> s.log, threw |-> FALSE, value |-> initialValue,
             depth |-> 1 + s.depth]
       ELSE IF applyStop(stop, s.result.value)
       THEN [heap |-> s.heap, log |-> s.log, threw |-> FALSE, value |-> initialValue,
             depth |-> 1 + s.depth]
       ELSE Deeper(reduceStopExcluded(Run(s), id, reducer,
                                      applyReducer(reducer, s.result.value, initialValue),
                                      MinusOne(n), stop),
                   s.depth)

RECURSIVE reduce(_, _, _, _, _, _)

\* reduce(iterator, reducer, initialValue, n = Infinity, stop)
reduce(r, id, reducer, initialValue, n, stop) ==
  IF LessThanOne(n)
  THEN [heap |-> r.heap, log |-> r.log, threw |-> FALSE, value |-> initialValue,
        depth |-> 1]
  ELSE LET s == shift(r, id, 0) IN
       IF s.result.done
       THEN [heap |-> s.heap, log |-> s.log, threw |-> FALSE, value |-> initialValue,
             depth |-> 1 + s.depth]
       ELSE IF applyStop(stop, s.result.value)
       THEN [heap |-> s.heap, log |-> s.log, threw |-> FALSE,
             value |-> applyReducer(reducer, s.result.value, initialValue),
             depth |-> 1 + s.depth]
       ELSE Deeper(reduce(Run(s), id, reducer,
                          applyReducer(reducer, s.result.value, initialValue),
                          MinusOne(n), stop),
                   s.depth)

\* mutant: the fold has no stop
everyNeverStops(r, id, test, n) ==
  Framed(reduce(r, id, [fn |-> "every", test |-> test], TRUE, n, NoStop))

\* mutant: the fold stops at the first item that passes
everyStopsOnPass(r, id, test, n) ==
  Framed(reduce(r, id, [fn |-> "every", test |-> test], TRUE, n, StopWhen(test)))

every(r, id, test, n) ==
  Framed(reduce(r, id, [fn |-> "every", test |-> test], TRUE, n, StopWhen(negate(test))))

\* mutant: the test is handed to every as it is
someNoInnerNegation(r, id, test, n) ==
  LET e == every(r, id, test, n)
  IN  [e EXCEPT !.value = ~@, !.depth = 1 + @]

some(r, id, test, n) ==
  LET e == every(r, id, negate(test), n)
  IN  [e EXCEPT !.value = ~@, !.depth = 1 + @]

\* mutant: each item goes to the front of the array
takeReversed(r, id, n) ==
  Framed(reduce(r, id, [fn |-> "prepend"], <<>>, n, NoStop))

take(r, id, n) ==
  Framed(reduce(r, id, [fn |-> "push"], <<>>, n, NoStop))

\* mutant: the count starts at one
countFromOne(r, id, test, n) ==
  Framed(reduce(r, id, [fn |-> "count", test |-> test], 1, n, NoStop))

count(r, id, test, n) ==
  Framed(reduce(r, id, [fn |-> "count", test |-> test], 0, n, NoStop))

\* mutant: the cap is looked at before the first item
minCapFirst(r, id, lessThan, n) ==
  IF LessThanOne(n)
  THEN [heap |-> r.heap, log |-> r.log, threw |-> FALSE, value |-> "undefined",
        depth |-> 1]
  ELSE LET s == shift(r, id, 0) IN
       IF s.result.done
       THEN [heap |-> s.heap, log |-> s.log, threw |-> TRUE, depth |-> 1 + s.depth]
       ELSE Deeper(reduce(Run(s), id, [fn |-> "min", lessThan |-> lessThan],
                          s.result.value, n, NoStop),
                   s.depth)

\* throw TypeError('Empty iterator') leaves no value
min(r, id, lessThan, n) ==
  LET s == shift(r, id, 0) IN
  IF s.result.done
  THEN [heap |-> s.heap, log |-> s.log, threw |-> TRUE, depth |-> 1 + s.depth]
  ELSE Deeper(reduce(Run(s), id, [fn |-> "min", lessThan |-> lessThan],
                     s.result.value, n, NoStop),
              s.depth)

max(r, id, lessThan, n) ==
  Framed(min(r, id, swap(lessThan), n))

\* ------------------------------------------------------ caller's obligations
\* The library has no cancellation: a call that never finds the end of its
\* source does not return.  The caller hands an uncapped fold only a finite
\* source, and pulls a filter only over a finite source.
RECURSIVE Finite(_, _)
Finite(h, id) ==
  CASE h[id].kind = "array"       -> TRUE
    [] h[id].kind = "empty"       -> TRUE
    [] h[id].kind = "sequence"    -> ~(h[id].length.den = 0 /\ h[id].length.num > 0)
    [] h[id].kind = "map"         -> Finite(h, h[id].iterator)
    [] h[id].kind = "filter"      -> Finite(h, h[id].iterator)
    [] h[id].kind = "concatenate" ->
         \A k \in DOMAIN h[id].iterators : Finite(h, h[id].iterators[k])

RECURSIVE Productive(_, _)
Productive(h, id) ==
  CASE h[id].kind = "map"         -> Productive(h, h[id].iterator)
    [] h[id].kind = "filter"      -> Finite(h, h[id].iterator)
    [] h[id].kind = "concatenate" ->
         \A k \in DOMAIN h[id].iterators : Productive(h, h[id].iterators[k])
    [] OTHER                      -> TRUE

Returns(h, id, n) == Productive(h, id) /\ (n.den = 0 /\ n.num > 0 => Finite(h, id))

\* the cursor of an infinite sequence stays within the model's bound
Bounded(h) == \A id \in DOMAIN h : h[id].kind = "sequence" => h[id].i <= MaxIndex

\* the handles a caller holds: every object but the array iterator that
\* unshift() builds over its values and hands straight to concatenate()
Handles == {id \in DOMAIN heap : ~(made[id].fn = "unshift" /\ heap[id].kind = "array")}

\* ----------------------------------------------------------------- actions
NoCall == [op |-> "none"]

Init ==
  /\ heap = <<>>
  /\ made = <<>>
  /\ sawDone = {}
  /\ toldDone = {}
  /\ res = NoCall

\* the handles whose next() returned done during a call
DoneIn(log) == {log[k][1] : k \in {j \in DOMAIN log : log[j][2]}}

\* a constructor returned the objects `its`, the last of them to the caller
Construct(call, its) ==
  /\ heap' = heap \o its
  /\ made' = made \o [k \in DOMAIN its |-> call]
  /\ sawDone' = sawDone
  /\ toldDone' = toldDone
  /\ res' = [op |-> call.fn, id |-> Len(heap) + Len(its), arg |-> call,
             before |-> heap, log |-> <<>>, threw |-> FALSE, depth |-> 1]

\* a call on the iterator `id` returned (or threw) `out`
Call(op, id, arg, out) ==
  /\ Bounded(out.heap)
  /\ heap' = out.heap
  /\ made' = made
  /\ sawDone' = sawDone \cup DoneIn(out.log)
  /\ toldDone' = toldDone \cup {<<id, x>> : x \in DoneIn(out.log)}
  /\ res' = IF out.threw
            THEN [op |-> op, id |-> id, arg |-> arg, before |-> heap,
                  log |-> out.log, threw |-> TRUE, depth |-> out.depth]
            ELSE [op |-> op, id |-> id, arg |-> arg, before |-> heap,
                  log |-> out.log, threw |-> FALSE, depth |-> out.depth,
                  value |-> out.value]

\* iterator(array): an Array is iterable; an array-like object is indexed
Iterator(array, iterable) ==
  Construct([fn |-> "iterator", array |-> array, iterable |-> iterable],
            <<IF iterable THEN arrayIterator(array)
              ELSE sequence([fn |-> "index", array |-> array], Num(Len(array)))>>)

Sequence(nth, length) ==
  Construct([fn |-> "sequence", nth |-> nth, length |-> length],
            <<sequence([fn |-> nth, asked |-> <<>>], length)>>)

Arrange(start, stop, step) ==
  Construct([fn |-> "arrange", start |-> start, stop |-> stop, step |-> step],
            <<arrange(start, stop, step)>>)

Recursive(nth, length, initial) ==
  Construct([fn |-> "recursive", nth |-> nth, length |-> length, initial |-> initial],
            <<recursive(nth, length, initial)>>)

Empty == Construct([fn |-> "empty"], <<empty>>)

Map(id, mapper) ==
  Construct([fn |-> "map", iterator |-> id, mapper |-> mapper], <<map(id, mapper)>>)

Filter(id, test) ==
  Construct([fn |-> "filter", iterator |-> id, test |-> test], <<filter(id, test)>>)

Concatenate(iterators) ==
  Construct([fn |-> "concatenate", iterators |-> iterators], <<concatenate(iterators)>>)

\* mutant: the values go behind the iterator
UnshiftBehind(id, values) ==
  Construct([fn |-> "unshift", iterator |-> id, values |-> values],
            <<arrayIterator(values), concatenate(<<id, Len(heap) + 1>>)>>)

\* unshift(iterator, ...values): concatenate(values[Symbol.iterator](), iterator)
Unshift(id, values) ==
  Construct([fn |-> "unshift", iterator |-> id, values |-> values],
            <<arrayIterator(values), concatenate(<<Len(heap) + 1, id>>)>>)

\* iterator.next(), called by the owner of the handle
Pull(id) ==
  /\ Productive(heap, id)
  /\ LET s == next([heap |-> heap, log |-> <<>>], id)
     IN  Call("next", id, [n |-> Num(1)],
              [heap |-> s.heap, log |-> s.log, threw |-> FALSE, depth |-> s.depth,
               value |-> s.result])

\* shift(iterator, n), called by the owner of the handle
Shift(id, n) ==
  /\ Productive(heap, id)
  /\ LET s == shift([heap |-> heap, log |-> <<>>], id, n)
     IN  Call("shift", id, [n |-> Num(n)],
              [heap |-> s.heap, log |-> s.log, threw |-> FALSE, depth |-> s.depth,
               value |-> s.result])

Reduce(id, reducer, initialValue, n, stop) ==
  /\ Returns(heap, id, n)
  /\ Call("reduce", id,
          [reducer |-> reducer, initialValue |-> initialValue, n |-> n, stop |-> stop],
          reduce([heap |-> heap, log |-> <<>>], id, reducer, initialValue, n, stop))

Every(id, test, n) ==
  /\ Returns(heap, id, n)
  /\ Call("every", id, [test |-> test, n |-> n],
          every([heap |-> heap, log |-> <<>>], id, test, n))

Some(id, test, n) ==
  /\ Returns(heap, id, n)
  /\ Call("some", id, [test |-> test, n |-> n],
          some([heap |-> heap, log |-> <<>>], id, test, n))

Take(id, n) ==
  /\ Returns(heap, id, n)
  /\ Call("take", id, [n |-> n], take([heap |-> heap, log |-> <<>>], id, n))

Count(id, test, n) ==
  /\ Returns(heap, id, n)
  /\ Call("count", id, [test |-> test, n |-> n],
          count([heap |-> heap, log |-> <<>>], id, test, n))

Min(id, lessThan, n) ==
  /\ Returns(heap, id, n)
  /\ Call("min", id, [lessThan |-> lessThan, n |-> n],
          min([heap |-> heap, log |-> <<>>], id, lessThan, n))

Max(id, lessThan, n) ==
  /\ Returns(heap, id, n)
  /\ Call("max", id, [lessThan |-> lessThan, n |-> n],
          max([heap |-> heap, log |-> <<>>], id, lessThan, n))

\* ------------------------------------------------------- a fold, call by call
\* reduce() taken one call of itself at a time.  While a fold runs, `res`
\* holds its frame: the accumulator in `value`, what is left of the cap in
\* `n`, the next() calls made so far in `log`, and in `depth` the reduce
\* calls entered.  Nothing else runs meanwhile: the library is synchronous.
Running == "running" \in DOMAIN res /\ res.running

\* The accumulator of a running fold, held under its JavaScript type
\* (typeof): a boolean for every and some, a number for count, an array for
\* take and for the reduce calls made here.  Accumulators of different types
\* are different values.
Boxed(op, value) ==
  CASE op \in {"every", "some"} -> [boolean |-> value]
    [] op = "count"             -> [number |-> value]
    [] OTHER                    -> [object |-> value]

Unboxed(box) == box[CHOOSE type \in DOMAIN box : TRUE]

\* the cursor of an infinite sequence stays within the model's bound when a
\* cap n is used up
Reach(id, n) ==
  IF Finite(heap, id) \/ n.den = 0 THEN TRUE ELSE heap[id].i + n.num <= MaxIndex

\* reduce(iterator, reducer, initialValue, n, stop) is called, by the caller
\* or by the wrapper `op`
Begin(op, id, arg, reducer, initialValue, n, stop) ==
  /\ ~Running
  /\ Productive(heap, id)
  /\ Reach(id, n)
  /\ heap' = heap
  /\ made' = made
  /\ sawDone' = sawDone
  /\ toldDone' = toldDone
  /\ res' = [op |-> op, id |-> id, arg |-> arg, before |-> heap, log |-> <<>>,
             threw |-> FALSE, depth |-> 0, running |-> TRUE, reducer |-> reducer,
             value |-> Boxed(op, initialValue), n |-> n, stop |-> stop]

ReduceBegins(id, reducer, initialValue, n, stop) ==
  Begin("reduce", id,
        [reducer |-> reducer, initialValue |-> initialValue, n |-> n, stop |-> stop],
        reducer, initialValue, n, stop)

EveryBegins(id, test, n) ==
  Begin("every", id, [test |-> test, n |-> n],
        [fn |-> "every", test |-> test], TRUE, n, StopWhen(negate(test)))

\* !every(iterator, (value) => !test(value), n)
SomeBegins(id, test, n) ==
  Begin("some", id, [test |-> test, n |-> n],
        [fn |-> "every", test |-> negate(test)], TRUE, n, StopWhen(negate(negate(test))))

TakeBegins(id, n) ==
  Begin("take", id, [n |-> n], [fn |-> "push"], <<>>, n, NoStop)

CountBegins(id, test, n) ==
  Begin("count", id, [test |-> test, n |-> n], [fn |-> "count", test |-> test], 0, n, NoStop)

\* the fold returns `value` (some returns its negation)
Finish(h, log, value) ==
  /\ heap' = h
  /\ made' = made
  /\ sawDone' = sawDone \cup DoneIn(log)
  /\ toldDone' = toldDone \cup {<<res.id, x>> : x \in DoneIn(log)}
  /\ res' = [res EXCEPT !.running = FALSE, !.log = log, !.depth = @ + 1,
                        !.value = Boxed(res.op, IF res.op = "some" THEN ~value ELSE value)]

\* one call of reduce: it returns, or it calls reduce with the next
\* accumulator and n - 1
ReduceStep ==
  /\ Running
  /\ IF LessThanOne(res.n)
     THEN Finish(heap, res.log, Unboxed(res.value))
     ELSE LET s == shift([heap |-> heap, log |-> res.log], res.id, 0) IN
          /\ Bounded(s.heap)
          /\ IF s.result.done
             THEN Finish(s.heap, s.log, Unboxed(res.value))
             ELSE IF applyStop(res.stop, s.result.value)
             THEN Finish(s.heap, s.log,
                         applyReducer(res.reducer, s.result.value, Unboxed(res.value)))
             ELSE /\ heap' = s.heap
                  /\ made' = made
                  /\ sawDone' = sawDone
                  /\ toldDone' = toldDone
                  /\ res' = [res EXCEPT
                               !.log = s.log, !.depth = @ + 1,
                               !.value = Boxed(res.op, applyReducer(res.reducer, s.result.value, Unboxed(@))),
                               !.n = MinusOne(@)]

\* ---------------------------------------------------------- specifications
Lengths == {Num(k) : k \in 0..MaxLen} \cup {Infinity}
Windows == {<<"successor", <<a>>>> : a \in Values}
             \cup {<<"sum", <<a, b>>>> : a \in Values, b \in Values}
Stops == {NoStop} \cup {StopWhen(test) : test \in Tests}
Reducers == {<<[fn |-> "prepend"], <<MaxVal>>>>, <<[fn |-> "subtract"], 1>>}

\* One source built by a producer, then pulled and folded by its owner.
Next ==
  \/ heap = <<>> /\ \E array \in Arrays, iterable \in BOOLEAN : Iterator(array, iterable)
  \/ heap = <<>> /\ \E nth \in {"identity", "odd"}, length \in Lengths : Sequence(nth, length)
  \/ heap = <<>> /\ \E w \in Windows, length \in Lengths : Recursive(w[1], length, w[2])
  \/ heap = <<>> /\ Empty
  \/ \E id \in Handles : Pull(id)
  \/ \E id \in Handles, f \in Reducers, n \in Caps, stop \in Stops :
       Reduce(id, f[1], f[2], n, stop)
  \/ \E id \in Handles, test \in Tests, n \in Caps : Every(id, test, n)
  \/ \E id \in Handles, test \in Tests, n \in Caps : Some(id, test, n)
  \/ \E id \in Handles, n \in Caps : Take(id, n)
  \/ \E id \in Handles, test \in Tests, n \in Caps : Count(id, test, n)
  \/ \E id \in Handles, lessThan \in Comparators, n \in Caps : Min(id, lessThan, n)
  \/ \E id \in Handles, lessThan \in Comparators, n \in Caps : Max(id, lessThan, n)

Spec == Init /\ [][Next]_vars

\* arrange(start, stop, step) built once, then pulled and materialized.
Steps == (0 - MaxStep)..MaxStep

NextArrange ==
  \/ heap = <<>> /\ \E start \in Steps, stop \in Steps, step \in Steps :
       Arrange(start, stop, step)
  \/ \E id \in Handles : Pull(id)
  \/ \E id \in Handles, n \in Caps : Take(id, n)

SpecArrange == Init /\ [][NextArrange]_vars

\* Pipelines: producers and transformers over them, pulled through any handle.
Room == Cardinality(Handles) < MaxIters
Sources == {<<>>} \cup {<<a>> : a \in Handles} \cup {<<a, b>> : a \in Handles, b \in Handles}

NextPipeline ==
  \/ Room /\ \E array \in {<<>>, <<0, 1>>} : Iterator(array, TRUE)
  \/ Room /\ Iterator(<<1>>, FALSE)
  \/ Room /\ Sequence("identity", Num(2))
  \/ Room /\ \E stop \in {0 - 1, 0, 2}, step \in {0, 1} : Arrange(0, stop, step)
  \/ Room /\ Recursive("successor", Num(2), <<0>>)
  \/ Room /\ Empty
  \/ Room /\ \E id \in Handles : Map(id, "increment")
  \/ Room /\ \E id \in Handles, test \in Tests : Filter(id, test)
  \/ Room /\ \E iterators \in Sources : Concatenate(iterators)
  \/ Room /\ \E id \in Handles : Unshift(id, <<0, 1>>)
  \/ \E id \in Handles : Pull(id)

SpecPipeline == Init /\ [][NextPipeline]_vars

\* Chains: a few finite producers, then one concatenate or unshift over them,
\* pulled through any handle.
Chained == \E id \in DOMAIN heap : heap[id].kind = "concatenate"
Links == ~Chained /\ Len(heap) < MaxSources
Chains == UNION {[1..k -> Handles] : k \in 0..MaxSources}

NextChain ==
  \/ Links /\ \E array \in {<<>>, <<0>>, <<1, 2>>} : Iterator(array, TRUE)
  \/ Links /\ Empty
  \/ ~Chained /\ \E iterators \in Chains : Concatenate(iterators)
  \/ ~Chained /\ \E id \in Handles : Unshift(id, <<2, 1>>)
  \/ \E id \in Handles : Pull(id)

SpecChain == Init /\ [][NextChain]_vars

\* One producer, at most one filter or concatenate over it, then pulled,
\* shifted and reduced through any handle.
NextShift ==
  \/ heap = <<>> /\ \E array \in Arrays : Iterator(array, TRUE)
  \/ heap = <<>> /\ Sequence("identity", Infinity)
  \/ Len(heap) = 1 /\ \E test \in Tests : Filter(1, test)
  \/ Len(heap) = 1 /\ \E iterators \in {<<1>>, <<1, 1>>} : Concatenate(iterators)
  \/ \E id \in Handles : Pull(id)
  \/ \E id \in Handles, n \in (0 - 1)..MaxCap : Shift(id, n)
  \/ \E id \in Handles, n \in Caps : Reduce(id, [fn |-> "prepend"], <<>>, n, NoStop)

SpecShift == Init /\ [][NextShift]_vars

\* One producer, pulled and folded by its owner, the folds one reduce call at
\* a time.  A call that has begun goes on: the code is synchronous.
NextFold ==
  \/ heap = <<>> /\ \E array \in Arrays : Iterator(array, TRUE)
  \/ heap = <<>> /\ Sequence("identity", Infinity)
  \/ ~Running /\ \E id \in Handles : Pull(id)
  \/ \E id \in Handles, n \in Caps, stop \in Stops :
       ReduceBegins(id, [fn |-> "prepend"], <<>>, n, stop)
  \/ \E id \in Handles, test \in Tests, n \in Caps : EveryBegins(id, test, n)
  \/ \E id \in Handles, test \in Tests, n \in Caps : SomeBegins(id, test, n)
  \/ \E id \in Handles, n \in Caps : TakeBegins(id, n)
  \/ \E id \in Handles, test \in Tests, n \in Caps : CountBegins(id, test, n)
  \/ ReduceStep

SpecFold == Init /\ [][NextFold]_vars /\ WF_vars(ReduceStep)

\* ------------------------------------------------------------ properties
\* What the owner of handle `id` would be handed by its next k pulls, up to
\* the first done.
RECURSIVE Ahead(_, _, _)
Ahead(h, id, k) ==
  IF k = 0 THEN <<>>
  ELSE LET s == next([heap |-> h, log |-> <<>>], id)
       IN  IF s.result.done THEN <<>>
           ELSE <<s.result.value>> \o Ahead(s.heap, id, k - 1)

\* no call of the model reaches further into a source than this
Horizon == MaxLen + MaxIndex + 1

\* the items in front of the iterator the last call was made on
Before == Ahead(res.before, res.id, Horizon)

Smaller(a, b) == IF a < b THEN a ELSE b

\* how many of `len` items a cap n lets through
Capped(n, len) ==
  IF n.den = 0 THEN (IF n.num > 0 THEN len ELSE 0)
  ELSE IF n.num < 0 THEN 0 ELSE Smaller(n.num, len)

\* the position of the first item a stop predicate accepts, or len
StopsAt(stop, items) ==
  LET hits == {j \in DOMAIN items : applyStop(stop, items[j])}
  IN  IF hits = {} THEN Len(items) ELSE CHOOSE j \in hits : \A k \in hits : j <= k

RECURSIVE FoldLeft(_, _, _)
FoldLeft(reducer, acc, items) ==
  IF items = <<>> THEN acc
  ELSE FoldLeft(reducer, applyReducer(reducer, Head(items), acc), Tail(items))

\* the items a call pulled and was handed
Pulled(log, id) == Cardinality({j \in DOMAIN log : log[j][1] = id /\ ~log[j][2]})

IsFold == res.op \in {"reduce", "take", "count", "every", "some"}

\* C1: once a pull on an iterator returned done, every later pull on it
\* returns done: in every reachable state, each handle that has reported done
\* reports done again when pulled.
C1_DoneStaysDone ==
  \A id \in sawDone : next([heap |-> heap, log |-> <<>>], id).result.done

\* a concatenate over two sources answers done without touching a source:
\* it had reported done before
C1_Witness ==
  /\ res.op = "next"
  /\ res.before[res.id].kind = "concatenate"
  /\ Len(res.before[res.id].iterators) = 2
  /\ res.log = <<<<res.id, TRUE>>>>
  /\ \E k \in DOMAIN heap : heap[k].kind = "array" /\ heap[k].index > 0

\* C2: reduce returns the left fold of reducer from initialValue over the
\* shortest prefix of the remaining items: the first n, all of them, or those
\* up to and including the first one stop accepts.
C2_ReduceFoldsPrefix ==
  res.op = "reduce" =>
    LET len == Smaller(Capped(res.arg.n, Len(Before)), StopsAt(res.arg.stop, Before))
    IN  res.value = FoldLeft(res.arg.reducer, res.arg.initialValue, SubSeq(Before, 1, len))

\* stop accepted the second of at least three items, under a larger cap
C2_Witness ==
  /\ res.op = "reduce"
  /\ Len(Before) >= 3
  /\ StopsAt(res.arg.stop, Before) = 2
  /\ applyStop(res.arg.stop, Before[2])
  /\ Capped(res.arg.n, Len(Before)) > 2
  /\ res.value # res.arg.initialValue

\* C3: a fold with n <= 0 returns its initial value and pulls nothing: the
\* sequence is as it was, so its next pull hands out what was first.
C3_ZeroCapConsumesNothing ==
  (IsFold /\ res.arg.n.den = 1 /\ res.arg.n.num <= 0) =>
    /\ res.log = <<>>
    /\ heap = res.before
    /\ ~res.threw
    /\ res.op = "reduce" => res.value = res.arg.initialValue
    /\ res.op = "take" => res.value = <<>>
    /\ res.op = "count" => res.value = 0
    /\ res.op = "every" => res.value = TRUE
    /\ res.op = "some" => res.value = FALSE

\* take(seq, 0) on an infinite sequence that has items in front
C3_Witness ==
  /\ res.op = "take"
  /\ res.arg.n = Num(0)
  /\ ~Finite(heap, res.id)
  /\ Len(Ahead(heap, res.id, 1)) = 1

\* C4 (as claimed): min and max with n >= 1 on a non-empty sequence return
\* the extremum of the first n items, and no later item is consumed.
C4_ExtremumOfFirstN ==
  (res.op \in {"min", "max"} /\ ~res.threw /\ ~LessThanOne(res.arg.n)) =>
    LET k == Capped(res.arg.n, Len(Before))
        better(a, b) == IF res.op = "min" THEN applyLessThan(res.arg.lessThan, a, b)
                        ELSE applyLessThan(res.arg.lessThan, b, a)
    IN  /\ \E j \in 1..k : res.value = Before[j]
        /\ \A j \in 1..k : ~better(Before[j], res.value)
        /\ Pulled(res.log, res.id) <= k

\* C7: min and max throw exactly when the first pull yields no item, whatever n.
C7_ThrowsIffEmpty ==
  res.op \in {"min", "max"} => (res.threw <=> Before = <<>>)

\* min with n = 0 threw on a sequence that was exhausted by earlier pulls
C7_Witness ==
  /\ res.op = "min"
  /\ res.arg.n = Num(0)
  /\ res.threw
  /\ res.before[res.id].kind = "array"
  /\ res.before[res.id].index > 0

\* C8: every is true iff each of the first n items (all, if fewer) passes test.
C8_EveryIsForAll ==
  res.op = "every" =>
    (res.value <=> \A j \in 1..Capped(res.arg.n, Len(Before)) :
                     applyTest(res.arg.test, Before[j]))

\* every found its first failing item in second place
C8_Witness ==
  /\ res.op = "every"
  /\ ~res.value
  /\ Len(res.log) = 2
  /\ applyTest(res.arg.test, Before[1])

\* C9: some is true iff at least one of the first n items passes test, and
\* false on an empty sequence.
C9_SomeIsExists ==
  res.op = "some" =>
    (res.value <=> \E j \in 1..Capped(res.arg.n, Len(Before)) :
                     applyTest(res.arg.test, Before[j]))

\* some found its first passing item in second place
C9_Witness ==
  /\ res.op = "some"
  /\ res.value
  /\ Len(res.log) = 2
  /\ ~applyTest(res.arg.test, Before[1])

\* C10: take returns the first min(n, length) remaining items in order.
C10_TakeIsPrefix ==
  res.op = "take" =>
    res.value = SubSeq(Before, 1, Capped(res.arg.n, Len(Before)))

\* an uncapped take materialized two different items
C10_Witness ==
  /\ res.op = "take"
  /\ res.arg.n = Infinity
  /\ Len(res.value) = 2
  /\ res.value[1] # res.value[2]

\* ceil(a / b) for integers, b # 0
Ceil(a, b) == 0 - ((0 - a) \div b)

\* max(0, ceil((stop - start) / step))
Length(call) ==
  LET c == Ceil(call.stop - call.start, call.step)
  IN  IF c < 0 THEN 0 ELSE c

\* C5 (as claimed): arrange with step = 0 raises, whatever start and stop.
C5_ZeroStepRaises ==
  (res.op = "arrange" /\ res.arg.step = 0) => res.threw

\* right after arrange() returned: what successive pulls would hand out
C6_ArrangeEmits ==
  (res.op = "arrange" /\ res.arg.step # 0) =>
    /\ ~res.threw
    /\ Ahead(heap, res.id, Length(res.arg) + 1)
         = [i \in 1..Length(res.arg) |-> res.arg.start + (i - 1) * res.arg.step]

\* the array an uncapped take returns from a fresh arrange, and the pull after it
C6_TakeMaterializes ==
  (res.op = "take" /\ res.arg.n = Infinity /\ made[res.id].step # 0
     /\ res.before[res.id].i = 0) =>
    /\ res.value = [i \in 1..Length(made[res.id]) |->
                      made[res.id].start + (i - 1) * made[res.id].step]
    /\ next([heap |-> heap, log |-> <<>>], res.id).result.done

\* C6: arrange with step # 0 emits start + i * step for i = 0 .. L - 1, in
\* that order, with L = max(0, ceil((stop - start) / step)), and then done;
\* a sign of stop - start that disagrees with step gives an empty sequence
\* and no error.
C6_Holds == C6_ArrangeEmits /\ C6_TakeMaterializes

\* a descending arrange whose quotient is not whole was materialized
C6_Witness ==
  /\ res.op = "take"
  /\ res.arg.n = Infinity
  /\ made[res.id].step < 0
  /\ (made[res.id].start - made[res.id].stop) % (0 - made[res.id].step) # 0
  /\ Len(res.value) = 2
  /\ res.before[res.id].i = 0

\* the heap after k pulls through handle `id`
RECURSIVE After(_, _, _)
After(h, id, k) ==
  IF k = 0 THEN h ELSE After(next([heap |-> h, log |-> <<>>], id).heap, id, k - 1)

\* the items of the iterators `ids`, each drained in turn from left to right
RECURSIVE Chain(_, _)
Chain(h, ids) ==
  IF ids = <<>> THEN <<>>
  ELSE Ahead(h, Head(ids), Horizon) \o Chain(After(h, Head(ids), Horizon), Tail(ids))

\* C11: concatenate(s1, ..., sk) yields the items of s1 in order, then those
\* of s2, and so on through sk, skipping empty sub-sequences: a concatenate
\* just built has in front of it the items of its sub-sequences drained from
\* left to right; every pull on it returns the first of those items, and
\* returns done only when none is left (so at once when all are empty or
\* there are none) and every sub-sequence has reported done.
C11_ConcatenateChains ==
  /\ res.op = "concatenate" =>
       Ahead(heap, res.id, Horizon) = Chain(heap, res.arg.iterators)
  /\ (res.op = "next" /\ res.before[res.id].kind = "concatenate") =>
       LET iterators == res.before[res.id].iterators
           rest == Chain(res.before, iterators)
       IN  IF rest = <<>>
           THEN /\ res.value = Done
                /\ \A j \in DOMAIN iterators : iterators[j] \in sawDone
           ELSE res.value = Item(rest[1])

\* a pull on a concatenate of two iterators went past the empty first one
\* and returned the first item of the second
C11_Witness ==
  /\ res.op = "next"
  /\ made[res.id].fn = "concatenate"
  /\ Len(made[res.id].iterators) = 2
  /\ made[res.id].iterators[1] # made[res.id].iterators[2]
  /\ Ahead(res.before, made[res.id].iterators[1], Horizon) = <<>>
  /\ Ahead(res.before, made[res.id].iterators[2], Horizon) # <<>>
  /\ res.value = Item(Ahead(res.before, made[res.id].iterators[2], Horizon)[1])

\* C16: unshift(seq, v1, ..., vk) pulls as concatenate(iterator([v1, ..., vk]),
\* seq) does: an unshift just built has in front of it the values v1..vk in
\* the order given, then the remaining items of seq, then done.
C16_UnshiftPrepends ==
  res.op = "unshift" =>
    LET items == Ahead(heap, res.id, Horizon)
        built == res.before \o <<arrayIterator(res.arg.values),
                                  concatenate(<<Len(res.before) + 1, res.arg.iterator>>)>>
    IN  /\ items = Ahead(built, Len(built), Horizon)
        /\ items = res.arg.values \o Ahead(heap, res.arg.iterator, Horizon)
        /\ Len(items) < Horizon
        /\ next([heap |-> After(heap, res.id, Len(items)), log |-> <<>>], res.id).result.done

\* two values were put in front of an iterator that had an item left
C16_Witness ==
  /\ res.op = "unshift"
  /\ Len(res.arg.values) = 2
  /\ Len(Ahead(heap, res.arg.iterator, Horizon)) = 1

\* a producer: its next() calls no other iterator
IsProducer(h, id) == h[id].kind \in {"array", "sequence", "empty"}

\* C12: filter(seq, test) yields the items of seq that satisfy test, in their
\* order and each once, and is done when seq is exhausted: a filter just
\* built over a finite seq has in front of it the items of seq that pass;
\* every pull on a filter returns the next passing item of seq and leaves
\* seq exactly behind that item (having pulled a producer once per item up
\* to it), or returns done with seq exhausted and done when none passes.
C12_FilterSelects ==
  /\ (res.op = "filter" /\ Finite(heap, res.arg.iterator)) =>
       Ahead(heap, res.id, Horizon) =
         SelectSeq(Ahead(heap, res.arg.iterator, Horizon),
                   LAMBDA v : applyTest(res.arg.test, v))
  /\ (res.op = "next" /\ res.before[res.id].kind = "filter") =>
       LET it == res.before[res.id]
           items == Ahead(res.before, it.iterator, Horizon)
           passing == {j \in DOMAIN items : applyTest(it.test, items[j])}
       IN  IF passing = {}
           THEN /\ res.value = Done
                /\ Ahead(heap, it.iterator, Horizon) = <<>>
                /\ it.iterator \in sawDone
                /\ IsProducer(heap, it.iterator) =>
                     Len(SelectSeq(res.log, LAMBDA e : e[1] = it.iterator)) = Len(items) + 1
           ELSE LET first == CHOOSE j \in passing : \A k \in passing : j <= k
                IN  /\ res.value = Item(items[first])
                    /\ Ahead(heap, it.iterator, Horizon) =
                         SubSeq(items, first + 1, Len(items))
                    /\ IsProducer(heap, it.iterator) =>
                         Len(SelectSeq(res.log, LAMBDA e : e[1] = it.iterator)) = first

\* a pull on a filter went past a failing item and returned the passing one
\* behind it
C12_Witness ==
  /\ res.op = "next"
  /\ res.before[res.id].kind = "filter"
  /\ LET it == res.before[res.id]
         items == Ahead(res.before, it.iterator, Horizon)
     IN  /\ Len(items) >= 2
         /\ ~applyTest(it.test, items[1])
         /\ res.value = Item(items[2])

\* C13: map(seq, mapper) is a lazy 1:1 transform: the next() calls made
\* during a pull on a map are those of one pull on seq, then the map's own
\* return; an item v of seq comes out as mapper(v), mapper having been called
\* with v and nothing else; done comes out as done, mapper not called.  A map
\* just built has in front of it mapper of each item in front of seq.
C13_MapIsOneToOne ==
  /\ (res.op = "map" /\ Productive(heap, res.id)) =>
       LET items == Ahead(heap, res.arg.iterator, Horizon)
       IN  Ahead(heap, res.id, Horizon) =
             [j \in DOMAIN items |-> applyMapper(res.arg.mapper, items[j])]
  /\ (res.op = "next" /\ res.before[res.id].kind = "map") =>
       LET it == res.before[res.id]
           one == next([heap |-> res.before, log |-> <<>>], it.iterator)
       IN  /\ res.log = Append(one.log, <<res.id, one.result.done>>)
           /\ IF one.result.done
              THEN /\ res.value = Done
                   /\ heap = one.heap
              ELSE /\ res.value = Item(applyMapper(it.mapper, one.result.value))
                   /\ heap = [one.heap EXCEPT
                               ![res.id].mapped = Append(it.mapped, one.result.value)]

\* a map that had mapped an item was pulled at the end of its source
C13_Witness ==
  /\ res.op = "next"
  /\ res.before[res.id].kind = "map"
  /\ res.before[res.id].mapped # <<>>
  /\ res.value = Done
  /\ heap[res.id].mapped = res.before[res.id].mapped

\* x0 .. x(m - 1): the initial items, each later item the relation of the
\* Len(initial) items before it
RECURSIVE Recurrence(_, _, _, _)
Recurrence(relation, k, xs, m) ==
  IF Len(xs) >= m THEN SubSeq(xs, 1, m)
  ELSE Recurrence(relation, k,
                  Append(xs, applyRelation(relation, SubSeq(xs, Len(xs) - k + 1, Len(xs)))),
                  m)

\* C14: recursive(nth, length, a0, ..., a(k-1)) emits exactly length items
\* x0, x1, ... with xi = ai for i < k and xi = nth(x(i-k), ..., x(i-1)) for
\* i >= k, and then done (at the first pull when length = 0): a recursive
\* just built has those items in front of it and done behind them (the first
\* MaxIndex of them when length is Infinity), the pull after i items returns
\* xi or done, and a take of a fresh one returns the first n of them.
C14_RecursiveEmits ==
  /\ res.op = "recursive" =>
       LET k == Len(res.arg.initial)
       IN  IF res.arg.length = Infinity
           THEN Ahead(heap, res.id, MaxIndex) =
                  Recurrence(res.arg.nth, k, res.arg.initial, MaxIndex)
           ELSE Ahead(heap, res.id, res.arg.length.num + 1) =
                  Recurrence(res.arg.nth, k, res.arg.initial, res.arg.length.num)
  /\ (res.op = "next" /\ made[res.id].fn = "recursive") =>
       LET call == made[res.id]
           i == res.before[res.id].i
       IN  res.value = IF IntLess(i, call.length)
                       THEN Item(Recurrence(call.nth, Len(call.initial),
                                            call.initial, i + 1)[i + 1])
                       ELSE Done
  /\ (res.op = "take" /\ made[res.id].fn = "recursive" /\ res.before[res.id].i = 0) =>
       LET call == made[res.id]
           m == IF call.length = Infinity THEN res.arg.n.num
                    ELSE Capped(res.arg.n, call.length.num)
       IN  res.value = Recurrence(call.nth, Len(call.initial), call.initial, m)

\* a pull returned an item past the initial ones: the sum of the two before it
C14_Witness ==
  /\ res.op = "next"
  /\ made[res.id].fn = "recursive"
  /\ Len(made[res.id].initial) = 2
  /\ res.before[res.id].i = 2
  /\ res.value = Item(made[res.id].initial[1] + made[res.id].initial[2])

\* 0, 1, ..., k - 1
Indices(k) == [j \in 1..k |-> j - 1]

\* the user function nth at index i
ValueAt(nth, i) == callNth([fn |-> nth, asked |-> <<>>], i).value

\* C15: sequence(nth, length) returns nth(i) on its (i+1)-th pull for every
\* i < length, calls nth once per emitted item with the indices 0, 1, 2, ...
\* and returns done on every pull after length items; with no length it never
\* returns done.  In every state the indices nth was asked for are 0, 1, 2,
\* ... in order; a sequence just built has nth(0), nth(1), ... in front of it
\* and two pulls past them return done without calling nth; a pull after e
\* items returns nth(e), calling nth with e, or done; a take calls nth once
\* per item it returns.
C15_SequenceEmits ==
  /\ \A id \in DOMAIN heap : made[id].fn = "sequence" =>
       heap[id].nth.asked = Indices(Len(heap[id].nth.asked))
  /\ res.op = "sequence" =>
       LET infinite == res.arg.length = Infinity
           len == IF infinite THEN MaxIndex ELSE res.arg.length.num
           pulls == IF infinite THEN MaxIndex ELSE len + 2
           after == After(heap, res.id, pulls)
       IN  /\ Ahead(heap, res.id, pulls) = [j \in 1..len |-> ValueAt(res.arg.nth, j - 1)]
           /\ after[res.id].nth.asked = Indices(len)
           /\ next([heap |-> after, log |-> <<>>], res.id).result.done = ~infinite
  /\ (res.op = "next" /\ made[res.id].fn = "sequence") =>
       LET asked == res.before[res.id].nth.asked
           e == Len(asked)
       IN  IF IntLess(e, made[res.id].length)
           THEN /\ res.value = Item(ValueAt(made[res.id].nth, e))
                /\ heap[res.id].nth.asked = Append(asked, e)
           ELSE /\ res.value = Done
                /\ heap[res.id].nth.asked = asked
  /\ (res.op = "take" /\ made[res.id].fn = "sequence") =>
       Len(heap[res.id].nth.asked) = Len(res.before[res.id].nth.asked) + Len(res.value)

\* a sequence of two items, both emitted, was pulled again: done, and nth
\* was not called a third time
C15_Witness ==
  /\ res.op = "next"
  /\ made[res.id].fn = "sequence"
  /\ made[res.id].length = Num(2)
  /\ res.before[res.id].nth.asked = <<0, 1>>
  /\ res.value = Done
  /\ heap[res.id].nth.asked = <<0, 1>>

\* the items a min or max call was handed, in the order it met them
Met == SubSeq(Before, 1, Pulled(res.log, res.id))

\* a beats b for the call: less for min, greater for max
Beats(a, b) ==
  IF res.op = "min" THEN applyLessThan(res.arg.lessThan, a, b)
  ELSE applyLessThan(res.arg.lessThan, b, a)

\* C18: among items tied for the extremum (lessThan false both ways) min
\* and max return the earliest one met: the result is the first of the items
\* met that no item met beats.
C18_EarliestTieWins ==
  (res.op \in {"min", "max"} /\ ~res.threw) =>
    LET best == {j \in DOMAIN Met : \A k \in DOMAIN Met : ~Beats(Met[k], Met[j])}
    IN  /\ best # {}
        /\ res.value = Met[CHOOSE j \in best : \A k \in best : j <= k]

\* max met two different items that tie and returned the first
C18_Witness ==
  /\ res.op = "max"
  /\ ~res.threw
  /\ Len(Met) = 2
  /\ Met[1] # Met[2]
  /\ ~Beats(Met[1], Met[2])
  /\ ~Beats(Met[2], Met[1])
  /\ res.value = Met[1]

\* C19: count(seq, test, n) is the number of items among the first n of seq
\* (all if fewer) that pass test; 0 for an empty seq or n <= 0; it never
\* throws.
C19_CountsPrefix ==
  res.op = "count" =>
    LET k == Capped(res.arg.n, Len(Before))
    IN  /\ ~res.threw
        /\ res.value = Cardinality({j \in 1..k : applyTest(res.arg.test, Before[j])})
        /\ (Before = <<>> \/ res.arg.n.num <= 0) => res.value = 0

\* a count capped at two counted one of the first two of three items
C19_Witness ==
  /\ res.op = "count"
  /\ res.arg.n = Num(2)
  /\ Len(Before) >= 3
  /\ res.value = 1
  /\ applyTest(res.arg.test, Before[3])

\* the run after k successive pulls through handle `id`
RECURSIVE Pulls(_, _, _)
Pulls(r, id, k) == IF k = 0 THEN r ELSE Pulls(Run(next(r, id)), id, k - 1)

\* C17: shift(seq, n) makes exactly n + 1 pulls on seq (one when n < 1) and
\* returns the result of the last: the heap and the next() calls of the call
\* are those of that many successive pulls, and the result is the item at
\* that place in front of seq, or done when seq has fewer items left.
C17_ShiftPullsNPlusOne ==
  res.op = "shift" =>
    LET pulls == IF res.arg.n.num < 1 THEN 1 ELSE res.arg.n.num + 1
        run == Pulls([heap |-> res.before, log |-> <<>>], res.id, pulls)
    IN  /\ heap = run.heap
        /\ res.log = run.log
        /\ IsProducer(res.before, res.id) => Len(res.log) = pulls
        /\ res.value = IF Len(Before) >= pulls THEN Item(Before[pulls]) ELSE Done

\* shift(seq, 2) on a producer with one item left: three pulls, the last two
\* of them done
C17_Witness ==
  /\ res.op = "shift"
  /\ res.arg.n = Num(2)
  /\ IsProducer(res.before, res.id)
  /\ Len(Before) = 1
  /\ res.log = <<<<res.id, FALSE>>, <<res.id, TRUE>>, <<res.id, TRUE>>>>
  /\ res.value = Done

\* the call nesting of one pull through handle `id` that skips nothing
RECURSIVE Frames(_, _)
Frames(h, id) ==
  CASE h[id].kind \in {"map", "filter"} -> 2 + Frames(h, h[id].iterator)
    [] h[id].kind = "concatenate" ->
         LET deep == {Frames(h, h[id].iterators[j]) : j \in DOMAIN h[id].iterators}
         IN  IF deep = {} THEN 1 ELSE 1 + (CHOOSE d \in deep : \A e \in deep : e <= d)
    [] OTHER -> 1

\* C20 (as claimed): the call nesting reached inside shift, reduce, a pull
\* on a filter and a pull on a concatenate does not grow with the number of
\* items skipped or folded or of sub-sequences advanced past: it is no deeper
\* than the frames of the call itself on top of one pull that skips nothing.
C20_DepthIsConstant ==
  /\ res.op = "shift" => res.depth <= 1 + Frames(res.before, res.id)
  /\ res.op = "reduce" => res.depth <= 2 + Frames(res.before, res.id)
  /\ (res.op = "next" /\ res.before[res.id].kind \in {"filter", "concatenate"}) =>
       res.depth <= Frames(res.before, res.id)

\* the places among the first n items in front of an every or some call
\* whose item decides it: fails the test for every, passes it for some
Decisive ==
  {j \in 1..Capped(res.arg.n, Len(Before)) :
     applyTest(res.arg.test, Before[j]) = (res.op = "some")}

\* C21: every makes no pull after the first item that fails test, some none
\* after the first item that passes: the next() calls of the call are one per
\* item up to the decisive one, none of them done, and the items in front of
\* seq after the call are those that followed the decisive item.
C21_ShortCircuit ==
  (res.op \in {"every", "some"} /\ Decisive # {}) =>
    LET first == CHOOSE j \in Decisive : \A k \in Decisive : j <= k
    IN  /\ res.log = [j \in 1..first |-> <<res.id, FALSE>>]
        /\ res.value = (res.op = "some")
        /\ Ahead(heap, res.id, Horizon - first) = SubSeq(Before, first + 1, Len(Before))

\* a some capped at three was decided by the second item: the third is
\* still in front of seq
C21_Witness ==
  /\ res.op = "some"
  /\ res.arg.n = Num(3)
  /\ Len(Before) >= 3
  /\ Decisive # {}
  /\ ~applyTest(res.arg.test, Before[1])
  /\ applyTest(res.arg.test, Before[2])
  /\ Ahead(heap, res.id, 1) = <<Before[3]>>

\* a take or an unstopped reduce with a whole cap n >= 0
IsCapped ==
  /\ res.op \in {"take", "reduce"}
  /\ res.op = "reduce" => res.arg.stop = NoStop
  /\ res.arg.n.den = 1
  /\ res.arg.n.num >= 0

\* C22: a fold with cap n and no stop over at least n items makes exactly n
\* pulls, none of them a look-ahead; so after take(seq, a) a take(seq, b) on
\* the same handle returns the b items that follow the first a, the two
\* arrays together are what take(seq, a + b) returns from the sequence as it
\* was before the first call, and both ways leave the sequence the same.
C22_CursorContinuity ==
  /\ (IsCapped /\ Len(Before) >= res.arg.n.num) =>
       res.log = [j \in 1..res.arg.n.num |-> <<res.id, FALSE>>]
  /\ (IsCapped /\ res.op = "take") =>
       \A b \in 0..MaxCap :
         LET a == res.arg.n.num
             second == take([heap |-> heap, log |-> <<>>], res.id, Num(b))
             whole == take([heap |-> res.before, log |-> <<>>], res.id, Num(a + b))
         IN  /\ res.value = SubSeq(Before, 1, Smaller(a, Len(Before)))
             /\ second.value = SubSeq(Before, a + 1, Smaller(a + b, Len(Before)))
             /\ res.value \o second.value = whole.value
             /\ second.heap = whole.heap

\* take(seq, 1) was called on a sequence that had been advanced before, and
\* a take(seq, 2) after it gets the two items that follow
C22_Witness ==
  /\ res.op = "take"
  /\ res.arg.n = Num(1)
  /\ Len(Before) >= 3
  /\ res.before[res.id].kind = "sequence"
  /\ res.before[res.id].i > 0
  /\ res.value = <<Before[1]>>
  /\ take([heap |-> heap, log |-> <<>>], res.id, Num(2)).value = <<Before[2], Before[3]>>

\* no handle twice: each iterator handed to concatenate has one owner
Distinct(ids) == \A p \in DOMAIN ids, q \in DOMAIN ids : ids[p] = ids[q] => p = q

\* the pulls a call on the concatenate `c` with log `log` made on its
\* sources go from left to right: each is on a source that has not told c
\* done, every source before it having done so
Ordered(c, iterators, log, told) ==
  LET pulls == SelectSeq(log, LAMBDA e : e[1] # c)
      Told(j, x) == <<c, x>> \in told \/ \E i \in 1..(j - 1) : pulls[i] = <<x, TRUE>>
  IN  \A j \in DOMAIN pulls :
        \E q \in DOMAIN iterators :
          /\ pulls[j][1] = iterators[q]
          /\ ~Told(j, iterators[q])
          /\ \A p \in 1..(q - 1) : Told(j, iterators[p])

\* C23: concatenate and unshift advance their sources strictly from left to
\* right: building one makes no pull and leaves every iterator as it was;
\* every pull a concatenate over distinct iterators makes is on an iterator
\* that has not yet returned done to it, all iterators to its left having
\* returned done to it (so unshift pulls seq only once its values are out).
C23_LeftToRight ==
  [][/\ res'.op \in {"concatenate", "unshift"} =>
          /\ res'.log = <<>>
          /\ SubSeq(heap', 1, Len(heap)) = heap
     /\ (/\ res'.op = "next"
         /\ heap[res'.id].kind = "concatenate"
         /\ Distinct(heap[res'.id].iterators)) =>
          Ordered(res'.id, heap[res'.id].iterators, res'.log, toldDone)]_vars

\* a pull on an unshift whose values were out: the array iterator over the
\* values returned done and only then seq was pulled, for its first item
C23_Witness ==
  /\ res.op = "next"
  /\ made[res.id].fn = "unshift"
  /\ res.log = <<<<res.id - 1, TRUE>>, <<made[res.id].iterator, FALSE>>,
                 <<res.id, FALSE>>, <<res.id, FALSE>>>>
  /\ <<res.id, res.id - 1>> \in toldDone
  /\ <<res.id, made[res.id].iterator>> \notin toldDone

\* the whole call, as reduce() computes it from the sequence as it was when
\* the fold began
Whole ==
  LET t == reduce([heap |-> res.before, log |-> <<>>], res.id,
                  res.reducer, IF res.op = "count" THEN 0
                               ELSE IF res.op \in {"every", "some"} THEN TRUE ELSE <<>>,
                  res.arg.n, res.stop)
  IN  [t EXCEPT !.value = IF res.op = "some" THEN ~@ ELSE @]

\* a fold taken call by call returns what reduce() returns
SteppedIsReduce ==
  ("running" \in DOMAIN res /\ ~res.running) =>
    /\ heap = Whole.heap
    /\ res.log = Whole.log
    /\ Unboxed(res.value) = Whole.value

\* no item the fold has pulled so far satisfies its stop
Unstopped ==
  \A j \in 1..Pulled(res.log, res.id) : ~applyStop(res.stop, Before[j])

\* the pulls of a fold stay within their cap, and within the items of a
\* finite source and its done; an uncapped fold over an infinite source that
\* has met no item its stop accepts has not returned
FoldWithinCap ==
  "running" \in DOMAIN res =>
    /\ res.arg.n.den = 1 =>
         Len(res.log) <= (IF res.arg.n.num < 0 THEN 0 ELSE res.arg.n.num)
    /\ Finite(res.before, res.id) => Len(res.log) <= Len(Before) + 1
    /\ (res.arg.n = Infinity /\ ~Finite(res.before, res.id) /\ Unstopped) => res.running

\* C24: reduce, take, count, every and some with a finite cap n return after
\* at most n pulls on the source, an infinite one included; without a cap
\* they return whenever the source is finite; an uncapped fold over an
\* infinite source none of whose items satisfies stop never returns.
C24_TerminatesUnderCap ==
  /\ []FoldWithinCap
  /\ (Running /\ (res.arg.n.den = 1 \/ Finite(heap, res.id))) ~> ~Running

\* a take capped at two has returned from an infinite sequence after two
\* pulls
C24_Witness ==
  /\ res.op = "take"
  /\ "running" \in DOMAIN res
  /\ ~res.running
  /\ res.arg.n = Num(2)
  /\ ~Finite(heap, res.id)
  /\ res.log = <<<<res.id, FALSE>>, <<res.id, FALSE>>>>
  /\ Unboxed(res.value) = SubSeq(Before, 1, 2)
====
